---- MODULE Spec2Model ----
(***************************************************************************)
(* A model of plexapi/audio.py: the Audio entities (Artist, Album, Track), *)
(* their fragment loaders, their cached derived collections, the           *)
(* Partial -> Full reconciliation they inherit from PlexPartialObject, and *)
(* their navigation and search operations.                                 *)
(*                                                                         *)
(* Python values are tagged tuples: None, I(n) an int, S(s) a str whose    *)
(* characters are the elements of the tuple s, F(h) a float given in       *)
(* hundredths.  A str that is never None (self.key) is kept as its bare    *)
(* tuple of characters.  A dict is a function whose DOMAIN is its key set,*)
(* tagged D(d) where it is passed as a value.                              *)
(***************************************************************************)
EXTENDS Integers, Sequences, FiniteSets, TLC

VARIABLES
    obj,      \* the instance: its class and the attributes _loadData set
    data,     \* self._data, the backing fragment
    full,     \* TRUE once the backing fragment is the instance's own resource
    cache,    \* the memo of each cached_data_property (the names memoized)
    scans,    \* per collection, the fragment generations findItems scanned
    gen,      \* the number of times the backing fragment was replaced
    reloads,  \* canonical fetch-by-key requests issued for this instance
    broken,   \* TRUE after a fatal integrity error
    lib,      \* the tracks of the owning library section (the server's side)
    ret       \* the last operation: its arguments, Fetch Layer calls, result

vars == <<obj, data, full, cache, scans, gen, reloads, broken, lib, ret>>

(***************************************************************************)
(* Bounds of the model.                                                    *)
(***************************************************************************)
MaxRatingKey == 2
MaxChildren == 2
MaxScans == 3
MaxReloads == 2
MaxLib == 2

(***************************************************************************)
(* Python values and strings.                                              *)
(***************************************************************************)
None == <<"None">>
I(n) == <<"int", n>>
S(s) == <<"str", s>>
F(h) == <<"float", h>>
D(d) == <<"dict", d>>

IsInt(v) == v[1] = "int"

EmptyDict == [k \in {} |-> None]

SlashChildren == <<"/", "c", "h", "i", "l", "d", "r", "e", "n">>
SlashAllLeaves == <<"/", "a", "l", "l", "L", "e", "a", "v", "e", "s">>
SlashNearest == <<"/", "n", "e", "a", "r", "e", "s", "t">>
LibraryMetadata ==
    <<"/", "l", "i", "b", "r", "a", "r", "y", "/", "m", "e", "t", "a", "d", "a", "t", "a", "/">>

StrLucky == <<"L", "u", "c", "k", "y">>
StrWeSing == <<"W", "e", " ", "S", "i", "n", "g">>
StrSummary == <<"s", "u", "m">>
StrStudio == <<"A", "t", "l", "a", "n", "t", "i", "c">>
StrArtist == <<"a", "r", "t", "i", "s", "t">>
StrAlbum == <<"a", "l", "b", "u", "m">>
StrTrack == <<"t", "r", "a", "c", "k">>
StrDirectory == <<"D", "i", "r", "e", "c", "t", "o", "r", "y">>
StrTrackTag == <<"T", "r", "a", "c", "k">>
StrSort == <<"l", "u", "c", "k", "y">>
StrYear == <<"2", "0", "0", "8">>
StrMalformed == <<"x">>

DigitChars == <<"0", "1", "2", "3", "4", "5", "6", "7", "8", "9">>

EndsWith(s, suffix) ==
    /\ Len(s) >= Len(suffix)
    /\ SubSeq(s, Len(s) - Len(suffix) + 1, Len(s)) = suffix

StartsWith(s, prefix) ==
    /\ Len(s) >= Len(prefix)
    /\ SubSeq(s, 1, Len(prefix)) = prefix

Contains(s, sub) ==
    \E i \in 1..(Len(s) - Len(sub) + 1) : SubSeq(s, i, i + Len(sub) - 1) = sub

\* str.replace(old, new): every non-overlapping occurrence, left to right.
RECURSIVE Replace(_, _, _)
Replace(s, old, new) ==
    IF Len(s) < Len(old) THEN s
    ELSE IF SubSeq(s, 1, Len(old)) = old
         THEN new \o Replace(SubSeq(s, Len(old) + 1, Len(s)), old, new)
         ELSE <<Head(s)>> \o Replace(Tail(s), old, new)

\* str(n) of a non-negative int.
RECURSIVE IntToStr(_)
IntToStr(n) ==
    IF n < 10 THEN <<DigitChars[n + 1]>>
    ELSE IntToStr(n \div 10) \o <<DigitChars[(n % 10) + 1]>>

DigitValue(c) == CHOOSE d \in 0..9 : DigitChars[d + 1] = c

IsDigits(s) == Len(s) > 0 /\ \A i \in 1..Len(s) : \E d \in 1..10 : DigitChars[d] = s[i]

RECURSIVE ParseDigits(_)
ParseDigits(s) ==
    IF Len(s) = 0 THEN 0
    ELSE 10 * ParseDigits(SubSeq(s, 1, Len(s) - 1)) + DigitValue(s[Len(s)])

\* int(s) of a str: an optional sign, then decimal digits.
IsIntLiteral(s) ==
    IF Len(s) > 0 /\ s[1] \in {"-", "+"} THEN IsDigits(Tail(s)) ELSE IsDigits(s)

ParseInt(s) ==
    IF s[1] = "-" THEN 0 - ParseDigits(Tail(s))
    ELSE IF s[1] = "+" THEN ParseDigits(Tail(s))
    ELSE ParseDigits(s)

\* A cast that hands the raw value back.
MutCastInt(v) == v

\* utils.cast(int, value): None stays None, an int stays itself, a
\* malformed str is absent.
CastInt(v) ==
    IF v = None THEN None
    ELSE IF IsInt(v) THEN v
    ELSE IF IsIntLiteral(v[2]) THEN I(ParseInt(v[2]))
    ELSE None

\* datetime.fromtimestamp(n) and datetime.strptime(s, '%Y-%m-%d').
T(n) == <<"datetime", n>>
Date(y, m, d) == <<"date", y, m, d>>

\* utils.toDatetime(value): the seconds since the epoch, absent on failure.
toDatetime(v) ==
    IF v = None THEN None
    ELSE IF IsIntLiteral(v[2]) THEN T(ParseInt(v[2]))
    ELSE None

RECURSIVE SplitOn(_, _)
SplitOn(s, sep) ==
    IF \A i \in 1..Len(s) : s[i] # sep THEN <<s>>
    ELSE LET i == CHOOSE k \in 1..Len(s) :
                      s[k] = sep /\ \A j \in 1..(k - 1) : s[j] # sep
         IN <<SubSeq(s, 1, i - 1)>> \o SplitOn(SubSeq(s, i + 1, Len(s)), sep)

IsLeap(y) == y % 4 = 0 /\ (y % 100 # 0 \/ y % 400 = 0)

DaysIn(y, m) ==
    IF m = 2 THEN (IF IsLeap(y) THEN 29 ELSE 28)
    ELSE IF m \in {4, 6, 9, 11} THEN 30 ELSE 31

\* utils.toDatetime(value, '%Y-%m-%d'): a four-digit year, a month and a
\* day of one or two digits naming a day of the calendar; absent on failure.
toDatetimeYmd(v) ==
    IF v = None THEN None
    ELSE LET parts == SplitOn(v[2], "-") IN
         IF /\ Len(parts) = 3
            /\ \A i \in 1..3 : IsDigits(parts[i])
            /\ Len(parts[1]) = 4
            /\ Len(parts[2]) \in 1..2
            /\ Len(parts[3]) \in 1..2
         THEN LET y == ParseDigits(parts[1])
                  m == ParseDigits(parts[2])
                  d == ParseDigits(parts[3])
              IN IF y >= 1 /\ m \in 1..12 /\ d >= 1 /\ d <= DaysIn(y, m)
                 THEN Date(y, m, d) ELSE None
         ELSE None

(***************************************************************************)
(* Fragments: an attribute dict and a sequence of child nodes (their tags).*)
(***************************************************************************)
\* data.attrib.get ignoring its default.
MutAttribGet(frag, name, default) ==
    IF name \in DOMAIN frag.attrib THEN S(frag.attrib[name]) ELSE None

\* data.attrib.get(name, default)
AttribGet(frag, name, default) ==
    IF name \in DOMAIN frag.attrib THEN S(frag.attrib[name]) ELSE default

Classes == {"Artist", "Album", "Track"}

\* Track and the views of a Track built from the sessions and the history
\* listings.
TrackClasses == {"Track", "TrackSession", "TrackHistory"}

LoadClasses == {"Artist", "Album"} \cup TrackClasses

\* The TAG constant of each registered class.
TAG(cls) == IF cls \in TrackClasses THEN StrTrackTag ELSE StrDirectory

\* The TYPE constant of each registered class.
TYPE(cls) ==
    CASE cls = "Artist" -> StrArtist
      [] cls = "Album" -> StrAlbum
      [] cls \in TrackClasses -> StrTrack

ChildTags == {"Genre", "Mood"}

ChildSeqs == UNION {[1..n -> ChildTags] : n \in 0..MaxChildren}

Optional(name, values) == {EmptyDict} \cup {name :> v : v \in values}

\* The wire shape of a key: /library/metadata/<ratingKey>, with "/children"
\* appended on the fragments of container entities.
WireKey(rk, suffix) == LibraryMetadata \o IntToStr(rk) \o suffix

KeySuffixes(cls) == IF cls \in TrackClasses THEN {<<>>} ELSE {<<>>, SlashChildren}

FragmentsOf(cls, types) ==
    { [attrib |-> ("ratingKey" :> IntToStr(rk)) @@ ("key" :> WireKey(rk, sfx))
                  @@ ("type" :> ty) @@ ("title" :> StrLucky) @@ sm @@ st,
       children |-> ch] :
        rk \in 1..MaxRatingKey, sfx \in KeySuffixes(cls), ty \in types,
        sm \in Optional("summary", {StrSummary}),
        st \in IF cls = "Album" THEN Optional("studio", {StrStudio}) ELSE {EmptyDict},
        ch \in ChildSeqs }

\* What the service embeds in a parent's response, or returns for the
\* entity's own resource.
Fragments(cls) == FragmentsOf(cls, {TYPE(cls)})

\* What the Fetch Layer may answer to a fetch-by-key: the resource, or (a
\* mismatched fixture) a fragment of another ratingKey or type.
MismatchedType(cls) == IF cls = "Track" THEN StrAlbum ELSE StrTrack

CanonicalFragments(cls) == FragmentsOf(cls, {TYPE(cls), MismatchedType(cls)})

GuidAlbum ==
    <<"p", "l", "e", "x", ":", "/", "/", "a", "l", "b", "u", "m", "/", "5", "d", "0", "7", "c", "d", "8", "e", "4", "0", "3", "c", "6", "4", "0", "2", "9", "0", "f", "1", "8", "0", "f", "9">>

GuidArtist ==
    <<"p", "l", "e", "x", ":", "/", "/", "a", "r", "t", "i", "s", "t", "/", "5", "d", "0", "7", "b", "b", "f", "c", "4", "0", "3", "c", "6", "4", "0", "2", "9", "0", "4", "a", "5", "e", "c", "9">>

\* The guid attributes of a fragment: none, or the entity's own guid and,
\* below an artist, the guid of its parent.
GuidSets(cls) ==
    IF cls = "Artist"
    THEN {EmptyDict, "guid" :> GuidArtist, "guid" :> GuidAlbum}
    ELSE {EmptyDict, ("guid" :> GuidAlbum) @@ ("parentGuid" :> GuidArtist),
          ("guid" :> GuidArtist) @@ ("parentGuid" :> GuidAlbum)}

\* A well-formed raw value for each numeric or timestamp attribute that the
\* loader layers of cls read.
AudioNumbers ==
    ("addedAt" :> <<"8", "6", "4", "0", "0">>) @@ ("index" :> <<"3">>)
    @@ ("viewCount" :> <<"7">>)

OwnNumbers(cls) ==
    CASE cls = "Artist" -> ("albumSort" :> <<"2">>)
      [] cls = "Album" ->
           ("originallyAvailableAt" :> <<"2", "0", "0", "8", "-", "0", "5", "-", "1", "3">>)
           @@ ("year" :> StrYear)
      [] cls \in TrackClasses ->
           ("ratingCount" :> <<"9">>) @@ ("viewOffset" :> <<"5", "0", "0">>)
           @@ ("year" :> StrYear)

ViewNumbers(cls) ==
    CASE cls = "TrackSession" -> ("sessionKey" :> <<"4">>)
      [] cls = "TrackHistory" -> ("viewedAt" :> <<"8", "6", "4", "0", "0">>)
      [] OTHER -> EmptyDict

WellFormed(cls) == AudioNumbers @@ OwnNumbers(cls) @@ ViewNumbers(cls)

\* The same attributes carrying values no cast accepts: a letter, and for
\* the dated attribute a day the calendar does not have.
Malformed(cls) ==
    [a \in DOMAIN WellFormed(cls) |->
        IF a = "originallyAvailableAt"
        THEN <<"2", "0", "0", "8", "-", "0", "2", "-", "3", "0">>
        ELSE StrMalformed]

RawNumberSets(cls) == {EmptyDict, WellFormed(cls), Malformed(cls)}

\* Fragments over the attributes the loaders coerce or default.
LoadFragments(cls) ==
    { [attrib |-> ("ratingKey" :> IntToStr(1)) @@ ("key" :> WireKey(1, sfx))
                  @@ ("type" :> TYPE(cls)) @@ ti @@ ts @@ gu @@ nu,
       children |-> <<>>] :
        sfx \in KeySuffixes(cls),
        ti \in Optional("title", {StrLucky}),
        ts \in Optional("titleSort", {StrSort}),
        gu \in GuidSets(cls),
        nu \in RawNumberSets(cls) }


(***************************************************************************)
(* Fragment loaders.  Each layer assigns attributes of the instance; the   *)
(* instance remembers the layers that ran, in order.                       *)
(***************************************************************************)
\* The assignments of one loader layer: an attribute assigned again takes
\* the new value.
SetAttrs(o, layer, fields) == fields @@ [o EXCEPT !.layers = Append(@, layer)]

\* Audio._loadData, over the attributes the properties below read; studio
\* is None until Album._loadData sets it.
Audio_loadData(cls, frag) ==
    LET title == AttribGet(frag, "title", None) IN
    [ cls |-> cls,
      layers |-> <<"Audio">>,
      addedAt |-> toDatetime(AttribGet(frag, "addedAt", None)),
      guid |-> AttribGet(frag, "guid", None),
      index |-> CastInt(AttribGet(frag, "index", None)),
      key |-> AttribGet(frag, "key", S(<<>>))[2],
      ratingKey |-> CastInt(AttribGet(frag, "ratingKey", None)),
      summary |-> AttribGet(frag, "summary", None),
      title |-> title,
      titleSort |-> AttribGet(frag, "titleSort", title),
      type |-> AttribGet(frag, "type", None),
      viewCount |-> CastInt(AttribGet(frag, "viewCount", I(0))),
      studio |-> None ]

\* Artist._loadData without the normalisation of key.
MutArtist_loadData(frag) ==
    SetAttrs(Audio_loadData("Artist", frag), "Artist",
             [albumSort |-> CastInt(AttribGet(frag, "albumSort", S(<<"-", "1">>)))])

Artist_loadData(frag) ==
    LET o == Audio_loadData("Artist", frag) IN
    SetAttrs(o, "Artist",
             [albumSort |-> CastInt(AttribGet(frag, "albumSort", S(<<"-", "1">>))),
              key |-> Replace(o.key, SlashChildren, <<>>)])

\* Album._loadData without the normalisation of key.
MutAlbum_loadData(frag) ==
    SetAttrs(Audio_loadData("Album", frag), "Album",
             [originallyAvailableAt |->
                  toDatetimeYmd(AttribGet(frag, "originallyAvailableAt", None)),
              parentGuid |-> AttribGet(frag, "parentGuid", None),
              studio |-> AttribGet(frag, "studio", None),
              year |-> CastInt(AttribGet(frag, "year", None))])

Album_loadData(frag) ==
    LET o == Audio_loadData("Album", frag) IN
    SetAttrs(o, "Album",
             [key |-> Replace(o.key, SlashChildren, <<>>),
              originallyAvailableAt |->
                  toDatetimeYmd(AttribGet(frag, "originallyAvailableAt", None)),
              parentGuid |-> AttribGet(frag, "parentGuid", None),
              studio |-> AttribGet(frag, "studio", None),
              year |-> CastInt(AttribGet(frag, "year", None))])

\* Playable._loadData: its attributes are not read by any operation here.
Playable_loadData(o, frag) == SetAttrs(o, "Playable", EmptyDict)

\* The attributes Track._loadData assigns after the two shared layers.
Track_fields(frag) ==
    [parentGuid |-> AttribGet(frag, "parentGuid", None),
     ratingCount |-> CastInt(AttribGet(frag, "ratingCount", None)),
     viewOffset |-> CastInt(AttribGet(frag, "viewOffset", I(0))),
     year |-> CastInt(AttribGet(frag, "year", None))]

\* Track._loadData assigning its own attributes before the Playable layer.
MutTrack_loadData(cls, frag) ==
    Playable_loadData(SetAttrs(Audio_loadData(cls, frag), "Track", Track_fields(frag)),
                      frag)

\* Track._loadData of an instance of class cls.
Track_loadData(cls, frag) ==
    SetAttrs(Playable_loadData(Audio_loadData(cls, frag), frag), "Track",
             Track_fields(frag))

\* PlexSession._loadData: the session id.
PlexSession_loadData(o, frag) ==
    SetAttrs(o, "PlexSession",
             [sessionKey |-> CastInt(AttribGet(frag, "sessionKey", None))])

\* PlexHistory._loadData: the time of the playback.
PlexHistory_loadData(o, frag) ==
    SetAttrs(o, "PlexHistory",
             [viewedAt |-> toDatetime(AttribGet(frag, "viewedAt", None))])

TrackSession_loadData(frag) ==
    PlexSession_loadData(Track_loadData("TrackSession", frag), frag)

TrackHistory_loadData(frag) ==
    PlexHistory_loadData(Track_loadData("TrackHistory", frag), frag)

\* self._loadData(data), dispatched on the class of self.
LoadData(cls, frag) ==
    CASE cls = "Artist" -> Artist_loadData(frag)
      [] cls = "Album" -> Album_loadData(frag)
      [] cls = "Track" -> Track_loadData("Track", frag)
      [] cls = "TrackSession" -> TrackSession_loadData(frag)
      [] cls = "TrackHistory" -> TrackHistory_loadData(frag)

(***************************************************************************)
(* The registry of entity classes (utils.registerPlexObject), filled as    *)
(* the module is imported, and the choice of the class of a fragment.      *)
(***************************************************************************)
\* Classes that set neither _SESSIONTYPE nor _HISTORYTYPE.
MutKindFlags(cls) == ""

\* _SESSIONTYPE and _HISTORYTYPE of each registered class.
KindFlags(cls) ==
    CASE cls = "TrackSession" -> "session"
      [] cls = "TrackHistory" -> "history"
      [] OTHER -> ""

\* The decorated classes, in the order of their definition.
RegisteredClasses == <<"Artist", "Album", "Track", "TrackSession", "TrackHistory">>

EntryOf(cls) == <<TAG(cls), TYPE(cls), KindFlags(cls)>>

\* register(class): the class is recorded under its tag, type and kind.
register(reg, cls) == (EntryOf(cls) :> cls) @@ reg

RECURSIVE RegisterAll(_)
RegisterAll(n) ==
    IF n = 0 THEN EmptyDict
    ELSE register(RegisterAll(n - 1), RegisteredClasses[n])

PLEXOBJECTS == RegisterAll(Len(RegisteredClasses))

\* resolve(tag, type, kindFlags): the class registered under the signaled
\* kind, else the unflagged class of the same tag and type, else None.
resolve(tag, type, kind) ==
    IF <<tag, type, kind>> \in DOMAIN PLEXOBJECTS
    THEN S(PLEXOBJECTS[<<tag, type, kind>>])
    ELSE IF <<tag, type, "">> \in DOMAIN PLEXOBJECTS
    THEN S(PLEXOBJECTS[<<tag, type, "">>])
    ELSE None

(***************************************************************************)
(* Cached derived collections (cached_data_property over findItems).       *)
(***************************************************************************)
Collections == {"moods", "genres"}

\* self.findItems(self._data, cls): the children of the fragment that cls
\* describes, in document order.
findItems(frag, tag) == SelectSeq(frag.children, LAMBDA n : n = tag)

moods(frag) == findItems(frag, "Mood")

\* genres scanning for the wrong child descriptor.
Mutgenres(frag) == findItems(frag, "Mood")

genres(frag) == findItems(frag, "Genre")

\* The body of the cached_data_property named c.
Compute(c, frag) ==
    CASE c = "moods" -> moods(frag)
      [] c = "genres" -> genres(frag)

\* A property that never finds its memo.
MutMemoized(c, memo) == FALSE

\* cached_data_property: the value is in the instance's memo.
Memoized(c, memo) == c \in DOMAIN memo

\* The memo after the property c was read against fragment frag.
MemoAfterGet(c, memo, frag) ==
    IF Memoized(c, memo) THEN memo ELSE (c :> Compute(c, frag)) @@ memo

\* The scan log after the property c was read at generation g.
ScansAfterGet(c, memo, log, g) ==
    IF Memoized(c, memo) THEN log ELSE [log EXCEPT ![c] = Append(@, g)]

(***************************************************************************)
(* Partial/Full reconciliation (PlexPartialObject).                        *)
(***************************************************************************)
NoErr == "ok"

Ret(op, args, calls, err, value, pre) ==
    [op |-> op, args |-> args, calls |-> calls, err |-> err, value |-> value, pre |-> pre]

Call(fn, key, cls, kw) == [fn |-> fn, key |-> key, cls |-> cls, kw |-> kw]

NoPre == [full |-> FALSE, noGenre |-> FALSE]

\* A value that makes a Partial instance fetch its own resource.
Absent(v) == v = None

\* A reload that leaves the instance Partial.
MutFullAfterReload == FALSE

\* The state of the instance after its canonical resource was loaded.
FullAfterReload == TRUE

\* A canonical fragment must carry the ratingKey and type of the instance.
IntegrityOk(o, loaded) == loaded.ratingKey = o.ratingKey /\ loaded.type = o.type

Attrs(cls) == IF cls = "Album" THEN {"summary", "studio"} ELSE {"summary"}

\* The instance fetches its own resource, replaces the backing fragment,
\* runs the loader again and drops every memo; a canonical fragment of
\* another ratingKey or type is a fatal integrity error.
Reload(canon, memo, log) ==
    LET loaded == LoadData(obj.cls, canon) IN
    /\ reloads < MaxReloads
    /\ reloads' = reloads + 1
    /\ IF IntegrityOk(obj, loaded)
       THEN /\ obj' = loaded
            /\ data' = canon
            /\ full' = FullAfterReload
            /\ gen' = gen + 1
            /\ broken' = FALSE
       ELSE /\ broken' = TRUE
            /\ cache' = memo
            /\ scans' = log
            /\ UNCHANGED <<obj, data, full, gen>>

ReloadCall == Call("reload", obj.key, obj.cls, EmptyDict)

\* Reading a plain attribute of the instance, the Fetch Layer answering a
\* fetch-by-key with one of canons.
AccessAttrOf(name, canons) ==
    /\ ~broken
    /\ name \in Attrs(obj.cls)
    /\ UNCHANGED lib
    /\ IF ~Absent(obj[name]) \/ full
       THEN /\ ret' = Ret("attr", <<name>>, <<>>, NoErr, obj[name], NoPre)
            /\ UNCHANGED <<obj, data, full, cache, scans, gen, reloads, broken>>
       ELSE \E canon \in canons :
              /\ Reload(canon, cache, scans)
              /\ IF broken'
                 THEN ret' = Ret("attr", <<name>>, <<ReloadCall>>, "IntegrityError", None, NoPre)
                 ELSE /\ cache' = EmptyDict
                      /\ scans' = scans
                      /\ ret' = Ret("attr", <<name>>, <<ReloadCall>>, NoErr, obj'[name], NoPre)

AccessAttr(name) == AccessAttrOf(name, CanonicalFragments(obj.cls))

\* The same read of an instance loaded from the fragments of LoadFragments.
AccessOwnAttr(name) == AccessAttrOf(name, LoadFragments(obj.cls))

\* Reading a derived collection of the instance: the first read scans the
\* children of the backing fragment and memoizes the result, a later read
\* returns the memo; an empty result is a value, and no fetch is issued.
AccessCollection(c) ==
    LET memo1 == MemoAfterGet(c, cache, data)
        log1 == ScansAfterGet(c, cache, scans, gen)
        pre == [full |-> full, noGenre |-> \A i \in 1..Len(data.children) : data.children[i] # "Genre"]
    IN
    /\ ~broken
    /\ c \in Collections
    /\ Len(scans[c]) < MaxScans
    /\ cache' = memo1
    /\ scans' = log1
    /\ ret' = Ret(c, <<>>, <<>>, NoErr, memo1[c], pre)
    /\ UNCHANGED <<obj, data, full, gen, reloads, broken, lib>>

(***************************************************************************)
(* metadataDirectory: the bundle of the entity below the data directory of *)
(* the server.                                                             *)
(***************************************************************************)
StrMetadata == <<"M", "e", "t", "a", "d", "a", "t", "a">>
StrArtists == <<"A", "r", "t", "i", "s", "t", "s">>
StrAlbums == <<"A", "l", "b", "u", "m", "s">>
StrBundle == <<".", "b", "u", "n", "d", "l", "e">>

\* utils.sha1hash(guid): the hexadecimal SHA-1 digest of the guid.
sha1hash(guid) ==
    CASE guid = GuidAlbum ->
           <<"7", "5", "6", "0", "a", "4", "d", "f", "7", "2", "2", "1", "1", "3", "6", "9", "8", "3", "c", "5", "f", "d", "6", "8", "f", "4", "c", "e", "b", "f", "7", "a", "4", "8", "7", "4", "c", "c", "2", "8">>
      [] guid = GuidArtist ->
           <<"f", "d", "3", "c", "9", "a", "6", "9", "f", "5", "7", "0", "d", "8", "5", "9", "8", "3", "b", "f", "6", "9", "a", "1", "8", "e", "5", "d", "5", "3", "e", "9", "1", "e", "8", "5", "d", "5", "e", "b">>

\* str(Path('Metadata') / kind / guid_hash[0] / f'{guid_hash[1:]}.bundle')
BundlePath(kind, guid_hash) ==
    StrMetadata \o <<"/">> \o kind \o <<"/", guid_hash[1], "/">>
    \o Tail(guid_hash) \o StrBundle

Artist_metadataDirectory(self) == S(BundlePath(StrArtists, sha1hash(self.guid[2])))

Album_metadataDirectory(self) == S(BundlePath(StrAlbums, sha1hash(self.guid[2])))

\* Track.metadataDirectory hashing the guid of the track itself.
MutTrack_metadataDirectory(self) == S(BundlePath(StrAlbums, sha1hash(self.guid[2])))

Track_metadataDirectory(self) == S(BundlePath(StrAlbums, sha1hash(self.parentGuid[2])))

\* self.metadataDirectory, dispatched on the class of self.
metadataDirectory(self) ==
    CASE self.cls = "Artist" -> Artist_metadataDirectory(self)
      [] self.cls = "Album" -> Album_metadataDirectory(self)
      [] self.cls \in TrackClasses -> Track_metadataDirectory(self)

\* The attribute that metadataDirectory reads.
GuidAttr(cls) == IF cls \in TrackClasses THEN "parentGuid" ELSE "guid"

\* The property of an instance whose guid was read: hashing an absent guid
\* raises ('NoneType' object has no attribute 'encode').
PropertyValue(self) ==
    IF self[GuidAttr(self.cls)] = None
    THEN [value |-> None, err |-> "AttributeError"]
    ELSE [value |-> metadataDirectory(self), err |-> NoErr]

\* Reading the property: the read of the guid reconciles a Partial instance
\* that has none.
MetadataDirectory ==
    LET name == GuidAttr(obj.cls) IN
    /\ ~broken
    /\ UNCHANGED lib
    /\ IF ~Absent(obj[name]) \/ full
       THEN /\ ret' = Ret("metadataDirectory", <<>>, <<>>, PropertyValue(obj).err,
                          PropertyValue(obj).value, NoPre)
            /\ UNCHANGED <<obj, data, full, cache, scans, gen, reloads, broken>>
       ELSE \E canon \in LoadFragments(obj.cls) :
              /\ Reload(canon, cache, scans)
              /\ IF broken'
                 THEN ret' = Ret("metadataDirectory", <<>>, <<ReloadCall>>,
                                 "IntegrityError", None, NoPre)
                 ELSE /\ cache' = EmptyDict
                      /\ scans' = scans
                      /\ ret' = Ret("metadataDirectory", <<>>, <<ReloadCall>>,
                                    PropertyValue(obj').err, PropertyValue(obj').value,
                                    NoPre)

\* Choosing the class of a fragment of the given tag and type that arrived
\* by the normal, the sessions or the history path.
Tags == {StrDirectory, StrTrackTag}
Types == {StrArtist, StrAlbum, StrTrack}
Kinds == {"", "session", "history"}

Resolve ==
    /\ ~broken
    /\ \E tag \in Tags, type \in Types, kind \in Kinds :
         LET cls == resolve(tag, type, kind) IN
         ret' = Ret("resolve", <<S(tag), S(type), kind>>, <<>>,
                    IF cls = None THEN "UnknownType" ELSE NoErr, cls, NoPre)
    /\ UNCHANGED <<obj, data, full, cache, scans, gen, reloads, broken, lib>>

(***************************************************************************)
(* Navigation and search.  Each operation is a function of the instance    *)
(* and its arguments, giving the Fetch Layer calls it issues (at most one) *)
(* and the error it raises.                                                *)
(***************************************************************************)
Out(calls, err) == [calls |-> calls, err |-> err]

\* Artist.track taking album or track alone for a positional lookup.
MutArtist_track(self, title, album, track) ==
    LET key == self.key \o SlashAllLeaves IN
    IF title # None
    THEN Out(<<Call("fetchItem", key, "Track", "title__iexact" :> title)>>, NoErr)
    ELSE IF album # None \/ track # None
    THEN Out(<<Call("fetchItem", key, "Track",
                    ("parentTitle__iexact" :> album) @@ ("index" :> track))>>, NoErr)
    ELSE Out(<<>>, "BadRequest")

Artist_track(self, title, album, track) ==
    LET key == self.key \o SlashAllLeaves IN
    IF title # None
    THEN Out(<<Call("fetchItem", key, "Track", "title__iexact" :> title)>>, NoErr)
    ELSE IF album # None /\ track # None
    THEN Out(<<Call("fetchItem", key, "Track",
                    ("parentTitle__iexact" :> album) @@ ("index" :> track))>>, NoErr)
    ELSE Out(<<>>, "BadRequest")

\* Artist.get letting a complete position take precedence over the title.
MutArtist_get(self, title, album, track) ==
    Artist_track(self, IF album # None /\ track # None THEN None ELSE title,
                 album, track)

Artist_get(self, title, album, track) == Artist_track(self, title, album, track)

\* Artist.tracks listing the direct children.
MutArtist_tracks(self, kwargs) ==
    Out(<<Call("fetchItems", self.key \o SlashChildren, "Track", kwargs)>>, NoErr)

Artist_tracks(self, kwargs) ==
    LET key == self.key \o SlashAllLeaves IN
    Out(<<Call("fetchItems", key, "Track", kwargs)>>, NoErr)

\* Album.track returning None where it should raise.
MutAlbum_track(self, title, track) ==
    LET key == self.key \o SlashChildren IN
    IF title # None /\ ~IsInt(title)
    THEN Out(<<Call("fetchItem", key, "Track", "title__iexact" :> title)>>, NoErr)
    ELSE IF track # None \/ IsInt(title)
    THEN LET index == IF IsInt(title) THEN title ELSE track IN
         Out(<<Call("fetchItem", key, "Track",
                    ("parentTitle__iexact" :> self.title) @@ ("index" :> index))>>, NoErr)
    ELSE Out(<<>>, NoErr)

Album_track(self, title, track) ==
    LET key == self.key \o SlashChildren IN
    IF title # None /\ ~IsInt(title)
    THEN Out(<<Call("fetchItem", key, "Track", "title__iexact" :> title)>>, NoErr)
    ELSE IF track # None \/ IsInt(title)
    THEN LET index == IF IsInt(title) THEN title ELSE track IN
         Out(<<Call("fetchItem", key, "Track",
                    ("parentTitle__iexact" :> self.title) @@ ("index" :> index))>>, NoErr)
    ELSE Out(<<>>, "BadRequest")

Album_get(self, title, track) == Album_track(self, title, track)

Album_tracks(self, kwargs) ==
    LET key == self.key \o SlashChildren IN
    Out(<<Call("fetchItems", key, "Track", kwargs)>>, NoErr)

\* {**d, name: value}: the entry written last wins.
DictSet(d, name, value) == (name :> value) @@ d

\* Artist.albums merging the other way: {'artist.id': ..., **filters}.
MutArtist_albums(self, filters) ==
    Out(<<Call("search", <<>>, "section",
               ("libtype" :> S(StrAlbum))
               @@ ("filters" :> D((IF filters = None THEN EmptyDict ELSE filters[2])
                                  @@ ("artist.id" :> self.ratingKey))))>>, NoErr)

\* filters is the caller's filters= keyword, None when it was not passed.
Artist_albums(self, filters) ==
    Out(<<Call("search", <<>>, "section",
               ("libtype" :> S(StrAlbum))
               @@ ("filters" :> D(DictSet(IF filters = None THEN EmptyDict ELSE filters[2],
                                          "artist.id", self.ratingKey))))>>, NoErr)

\* str(value) of an int, or of a float of the given hundredths.
PyStr(v) ==
    IF IsInt(v) THEN IntToStr(v[2])
    ELSE IntToStr(v[2] \div 100) \o <<".">>
         \o (IF v[2] % 10 = 0 THEN IntToStr((v[2] % 100) \div 10)
             ELSE IntToStr((v[2] % 100) \div 10) \o IntToStr(v[2] % 10))

RECURSIVE JoinPairs(_)
JoinPairs(params) ==
    IF Len(params) = 0 THEN <<>>
    ELSE params[1][1] \o <<"=">> \o PyStr(params[1][2])
         \o (IF Len(params) = 1 THEN <<>> ELSE <<"&">> \o JoinPairs(Tail(params)))

\* utils.joinArgs(params): "?name=value&name=value", empty for no params.
joinArgs(params) == IF Len(params) = 0 THEN <<>> ELSE <<"?">> \o JoinPairs(params)

StrLimit == <<"l", "i", "m", "i", "t">>
StrMaxDistance == <<"m", "a", "x", "D", "i", "s", "t", "a", "n", "c", "e">>

\* sonicallySimilar testing limit for truth instead of for None.
MutsonicallySimilar(self, limit, maxDistance) ==
    LET params1 == IF limit # None /\ limit # I(0) THEN <<<<StrLimit, limit>>>> ELSE <<>>
        params2 == IF maxDistance # None
                   THEN Append(params1, <<StrMaxDistance, maxDistance>>) ELSE params1
    IN Out(<<Call("fetchItems", self.key \o SlashNearest \o joinArgs(params2),
                  self.cls, EmptyDict)>>, NoErr)

sonicallySimilar(self, limit, maxDistance) ==
    LET params1 == IF limit # None THEN <<<<StrLimit, limit>>>> ELSE <<>>
        params2 == IF maxDistance # None
                   THEN Append(params1, <<StrMaxDistance, maxDistance>>) ELSE params1
    IN Out(<<Call("fetchItems", self.key \o SlashNearest \o joinArgs(params2),
                  self.cls, EmptyDict)>>, NoErr)

Titles == {None, S(<<>>), S(StrLucky)}
AlbumTitles == {None, S(StrWeSing)}
Indexes == {None, I(0), I(3)}
CallerFilters ==
    {None, D(EmptyDict), D("year" :> S(StrYear)), D("artist.id" :> I(9)),
     D(("year" :> S(StrYear)) @@ ("artist.id" :> I(9)))}
Limits == {None, I(0), I(50)}
Distances == {None, F(0), F(25)}

Returned(op, args, out) ==
    /\ ret' = Ret(op, args, out.calls, out.err, None, NoPre)
    /\ UNCHANGED <<obj, data, full, cache, scans, gen, reloads, broken, lib>>

ArtistTrack ==
    /\ obj.cls = "Artist"
    /\ \E title \in Titles \cup {I(2)}, album \in AlbumTitles, track \in Indexes :
         Returned("Artist.track", <<title, album, track>>,
                  Artist_track(obj, title, album, track))

ArtistGet ==
    /\ obj.cls = "Artist"
    /\ \E title \in Titles \cup {I(2)}, album \in AlbumTitles, track \in Indexes :
         Returned("Artist.get", <<title, album, track>>,
                  Artist_get(obj, title, album, track))

\* Album.track reads self.title on its positional branch only.
Album_readsTitle(title, track) ==
    /\ ~(title # None /\ ~IsInt(title))
    /\ track # None \/ IsInt(title)

\* Album.track or its alias Album.get: the key is built first; the read of
\* a title that a Partial instance lacks reconciles it before the fetch.
AlbumLookup(op) ==
    /\ obj.cls = "Album"
    /\ ~broken
    /\ \E title \in Titles \cup {I(2)}, track \in Indexes :
         IF ~Album_readsTitle(title, track) \/ ~Absent(obj.title) \/ full
         THEN Returned(op, <<title, track>>,
                       IF op = "Album.get" THEN Album_get(obj, title, track)
                       ELSE Album_track(obj, title, track))
         ELSE \E canon \in LoadFragments(obj.cls) :
                /\ Reload(canon, cache, scans)
                /\ UNCHANGED lib
                /\ IF broken'
                   THEN ret' = Ret(op, <<title, track>>, <<ReloadCall>>,
                                   "IntegrityError", None, NoPre)
                   ELSE LET self == [obj' EXCEPT !.key = obj.key]
                            out == IF op = "Album.get" THEN Album_get(self, title, track)
                                   ELSE Album_track(self, title, track)
                        IN /\ cache' = EmptyDict
                           /\ scans' = scans
                           /\ ret' = Ret(op, <<title, track>>, <<ReloadCall>> \o out.calls,
                                         out.err, None, NoPre)

AlbumTrack == AlbumLookup("Album.track")

AlbumGet == AlbumLookup("Album.get")

\* The filters a caller passes on to the listing.
ListingFilters == {EmptyDict, "year" :> S(StrYear)}

ArtistTracks ==
    /\ obj.cls = "Artist"
    /\ \E kwargs \in ListingFilters :
         Returned("Artist.tracks", <<D(kwargs)>>, Artist_tracks(obj, kwargs))

AlbumTracks ==
    /\ obj.cls = "Album"
    /\ \E kwargs \in ListingFilters :
         Returned("Album.tracks", <<D(kwargs)>>, Album_tracks(obj, kwargs))

ArtistAlbums ==
    /\ obj.cls = "Artist"
    /\ \E filters \in CallerFilters :
         Returned("Artist.albums", <<filters>>, Artist_albums(obj, filters))

SonicallySimilar ==
    \E limit \in Limits, maxDistance \in Distances :
        Returned("sonicallySimilar", <<limit, maxDistance>>,
                 sonicallySimilar(obj, limit, maxDistance))

(***************************************************************************)
(* Artist.popularTracks and the section search it delegates to.            *)
(***************************************************************************)
PopularLimit == 100

StrCompilation == <<"C", "o", "m", "p", "i", "l", "a", "t", "i", "o", "n">>
StrLive == <<"L", "i", "v", "e">>
StrTitle == <<"t", "i", "t", "l", "e">>
StrRatingCountDesc ==
    <<"r", "a", "t", "i", "n", "g", "C", "o", "u", "n", "t", ":", "d", "e", "s", "c">>

\* popularTracks excluding only the Compilation subformat.
MutpopularTracks(self) ==
    Out(<<Call("search", <<>>, "section",
               ("libtype" :> S(StrTrack))
               @@ ("filters" :> D(("album.subformat!" :> S(StrCompilation))
                                  @@ ("artist.id" :> self.ratingKey)
                                  @@ ("group" :> S(StrTitle))
                                  @@ ("ratingCount>>" :> I(0))))
               @@ ("sort" :> S(StrRatingCountDesc))
               @@ ("limit" :> I(PopularLimit)))>>, NoErr)

popularTracks(self) ==
    Out(<<Call("search", <<>>, "section",
               ("libtype" :> S(StrTrack))
               @@ ("filters" :> D(("album.subformat!" :> S(StrCompilation \o <<",">> \o StrLive))
                                  @@ ("artist.id" :> self.ratingKey)
                                  @@ ("group" :> S(StrTitle))
                                  @@ ("ratingCount>>" :> I(0))))
               @@ ("sort" :> S(StrRatingCountDesc))
               @@ ("limit" :> I(PopularLimit)))>>, NoErr)

\* The comma-separated alternatives of a filter value.
RECURSIVE SplitComma(_)
SplitComma(s) ==
    IF \A i \in 1..Len(s) : s[i] # ","
    THEN {s}
    ELSE LET i == CHOOSE k \in 1..Len(s) : s[k] = "," /\ \A j \in 1..(k - 1) : s[j] # ","
         IN {SubSeq(s, 1, i - 1)} \cup SplitComma(SubSeq(s, i + 1, Len(s)))

\* Whether a track of the section passes the filters of a search.
Matches(t, filters) ==
    /\ "artist.id" \in DOMAIN filters => t.artist = filters["artist.id"]
    /\ "album.subformat!" \in DOMAIN filters =>
         (t.subformat = None \/ t.subformat[2] \notin SplitComma(filters["album.subformat!"][2]))
    /\ "ratingCount>>" \in DOMAIN filters =>
         (t.ratingCount # None /\ t.ratingCount[2] > filters["ratingCount>>"][2])

Rank(t) == IF t.ratingCount = None THEN -1 ELSE t.ratingCount[2]

\* Stable sort by ratingCount, highest first: a track is placed after the
\* tracks heard more often and after the earlier tracks heard as often.
SortDesc(seq) ==
    LET n == Len(seq)
        place == [i \in 1..n |->
                     1 + Cardinality({j \in 1..n :
                                          \/ Rank(seq[j]) > Rank(seq[i])
                                          \/ Rank(seq[j]) = Rank(seq[i]) /\ j < i})]
    IN [k \in 1..n |-> seq[CHOOSE i \in 1..n : place[i] = k]]

\* group=title: the first track of each title.
GroupByTitle(seq) ==
    SelectSeq([i \in 1..Len(seq) |-> [t |-> seq[i], first |-> \A j \in 1..(i - 1) : seq[j].title # seq[i].title]],
              LAMBDA e : e.first)

FirstN(seq, n) == SubSeq(seq, 1, IF Len(seq) < n THEN Len(seq) ELSE n)

\* section().search(libtype='track', filters, sort, limit) as the service
\* answers it over the tracks of the section.
SectionSearch(tracks, kw) ==
    LET filters == kw["filters"][2]
        matched == SelectSeq(tracks, LAMBDA t : Matches(t, filters))
        sorted == IF "sort" \in DOMAIN kw /\ kw["sort"] = S(StrRatingCountDesc)
                  THEN SortDesc(matched) ELSE matched
        grouped == IF "group" \in DOMAIN filters /\ filters["group"] = S(StrTitle)
                   THEN [i \in 1..Len(GroupByTitle(sorted)) |-> GroupByTitle(sorted)[i].t]
                   ELSE sorted
    IN IF "limit" \in DOMAIN kw THEN FirstN(grouped, kw["limit"][2]) ELSE grouped

PopularTracks ==
    /\ obj.cls = "Artist"
    /\ LET out == popularTracks(obj) IN
       ret' = Ret("popularTracks", <<>>, out.calls, out.err,
                  SectionSearch(lib, out.calls[1].kw), NoPre)
    /\ UNCHANGED <<obj, data, full, cache, scans, gen, reloads, broken, lib>>

(***************************************************************************)
(* The life of one instance: built from a fragment by a top-level fetch    *)
(* (Full) or as a stub embedded in another response (Partial), then read.  *)
(***************************************************************************)
Loaded(frags) ==
    /\ \E cls \in DOMAIN frags : \E frag \in frags[cls] :
         /\ obj = LoadData(cls, frag)
         /\ data = frag
    /\ full \in BOOLEAN
    /\ cache = EmptyDict
    /\ scans = [c \in Collections |-> <<>>]
    /\ gen = 0
    /\ reloads = 0
    /\ broken = FALSE
    /\ ret = Ret("load", <<>>, <<>>, NoErr, None, NoPre)

Init == Loaded([cls \in Classes |-> Fragments(cls)]) /\ lib = <<>>

Next ==
    \/ \E name \in {"summary", "studio"} : AccessAttr(name)
    \/ \E c \in Collections : AccessCollection(c)

Spec == Init /\ [][Next]_vars

(***************************************************************************)
(* The navigation operations of a freshly loaded instance.                 *)
(***************************************************************************)
NavFragments(cls) == {f \in Fragments(cls) : f.children = <<>>}

InitNav == Loaded([cls \in Classes |-> NavFragments(cls)]) /\ lib = <<>>

NextNav ==
    \/ ArtistTrack
    \/ ArtistGet
    \/ AlbumTrack
    \/ AlbumGet
    \/ ArtistAlbums
    \/ SonicallySimilar

SpecNav == InitNav /\ [][NextNav]_vars

(***************************************************************************)
(* popularTracks of an Artist over the tracks of its library section.      *)
(***************************************************************************)
TrackKinds ==
    [ artist : {I(1), I(2)},
      title : {S(StrLucky), S(StrWeSing)},
      subformat : {None, S(StrCompilation), S(StrLive)},
      ratingCount : {None, I(0), I(5), I(9)} ]

SmallLibraries == UNION {[1..n -> TrackKinds] : n \in 0..MaxLib}

\* A section of n tracks of artist 1, of distinct titles.
BigLibrary(n) ==
    [i \in 1..n |-> [artist |-> I(1), title |-> S(IntToStr(i)), subformat |-> None,
                     ratingCount |-> I(1 + ((i * 7) % 5))]]

ArtistFragments(cls) ==
    IF cls = "Artist"
    THEN {f \in NavFragments(cls) : /\ DOMAIN f.attrib = {"ratingKey", "key", "type", "title"}
                                     /\ EndsWith(f.attrib["key"], SlashChildren)}
    ELSE {}

InitPopular ==
    /\ Loaded([cls \in Classes |-> ArtistFragments(cls)])
    /\ lib \in SmallLibraries \cup {BigLibrary(PopularLimit + 1)}

NextPopular == PopularTracks

SpecPopular == InitPopular /\ [][NextPopular]_vars

(***************************************************************************)
(* Every registered class over fragments whose attributes may be missing   *)
(* or malformed: loaded, reconciled, asked for its bundle and its tracks.  *)
(***************************************************************************)
InitLoad ==
    /\ Loaded([cls \in LoadClasses |-> LoadFragments(cls)])
    /\ lib = <<>>

NextLoad ==
    \/ AccessOwnAttr("summary")
    \/ MetadataDirectory
    \/ Resolve
    \/ ArtistTrack
    \/ ArtistTracks
    \/ AlbumTrack
    \/ AlbumTracks

SpecLoad == InitLoad /\ [][NextLoad]_vars

(***************************************************************************)
(* Properties.                                                             *)
(***************************************************************************)
NoDuplicates(seq) == \A i, j \in 1..Len(seq) : i # j => seq[i] # seq[j]

StripSuffix(s, suffix) == SubSeq(s, 1, Len(s) - Len(suffix))

\* C1: per instance, at most one canonical fetch-by-key is ever issued, and
\* once the instance is Full no later access issues a fetch or returns it to
\* Partial.
C1_OneWayReconciliation ==
    /\ [](reloads <= 1)
    /\ [][full => (full' /\ reloads' = reloads /\ ret'.calls = <<>>)]_vars

\* An access of an instance that an earlier access reconciled issued no fetch.
C1_Witness ==
    /\ full /\ gen = 1 /\ reloads = 1
    /\ ret.op = "attr" /\ ret.calls = <<>>

\* C2: a reconciliation that loads a canonical fragment leaves ratingKey,
\* key and type as they were, the fragment it loads carries the ratingKey
\* and type of the instance, and a fetch that loads nothing raised the
\* integrity error and overwrote no attribute.
C2_ReconciliationKeepsIdentity ==
    [][reloads' # reloads =>
        IF gen' # gen
        THEN /\ obj'.ratingKey = obj.ratingKey
             /\ obj'.key = obj.key
             /\ obj'.type = obj.type
             /\ CastInt(AttribGet(data', "ratingKey", None)) = obj.ratingKey
             /\ AttribGet(data', "type", None) = obj.type
             /\ ret'.err = NoErr
        ELSE /\ ret'.err = "IntegrityError"
             /\ broken'
             /\ obj' = obj
             /\ data' = data]_vars

\* A stub whose canonical fragment spells the key the other way (with or
\* without "/children") was reconciled.
C2_Witness ==
    /\ gen = 1 /\ full /\ ret.err = NoErr
    /\ obj.cls = "Album"
    /\ ~EndsWith(data.attrib["key"], SlashChildren)
    /\ ret.calls = <<Call("reload", WireKey(obj.ratingKey[2], <<>>), "Album", EmptyDict)>>

\* C3: each derived collection scans a backing fragment at most once: a
\* memo is the scan of the current fragment, made in the current generation,
\* it is returned as it is while the fragment stays, and a memo that outlives
\* a replacement of the fragment was computed from the new fragment.
C3_ScanOncePerGeneration ==
    /\ [](\A c \in Collections :
            /\ NoDuplicates(scans[c])
            /\ c \in DOMAIN cache =>
                 /\ Len(scans[c]) > 0
                 /\ scans[c][Len(scans[c])] = gen
                 /\ cache[c] = SelectSeq(data.children,
                                         LAMBDA n : n = (IF c = "moods" THEN "Mood" ELSE "Genre")))
    /\ [][\A c \in DOMAIN cache :
            /\ gen' = gen => (c \in DOMAIN cache' /\ cache'[c] = cache[c] /\ scans'[c] = scans[c])
            /\ gen' # gen => DOMAIN cache' \subseteq {ret'.op}]_vars

\* A collection was scanned in both generations and then read from its memo.
C3_Witness ==
    /\ gen = 1
    /\ scans["genres"] = <<0, 1>>
    /\ scans["moods"] = <<0>>
    /\ "moods" \notin DOMAIN cache
    /\ ret.op = "genres" /\ ret.calls = <<>>

\* C4: the key of a loaded Artist or Album never ends in "/children", and
\* is the fragment's key without that suffix when the fragment's key ends
\* in it.
C4_KeyWithoutChildren ==
    obj.cls \in {"Artist", "Album"} =>
        /\ ~EndsWith(obj.key, SlashChildren)
        /\ EndsWith(data.attrib["key"], SlashChildren) =>
             obj.key = StripSuffix(data.attrib["key"], SlashChildren)
        /\ ~EndsWith(data.attrib["key"], SlashChildren) => obj.key = data.attrib["key"]

\* An Artist loaded from the fragment of key /library/metadata/1/children.
C4_Witness ==
    /\ obj.cls = "Artist"
    /\ data.attrib["key"] = WireKey(1, SlashChildren)
    /\ obj.key = WireKey(1, <<>>)

IsTrackLookup == ret.op \in {"Artist.track", "Artist.get", "Album.track", "Album.get"}

\* C6: a track lookup with every parameter absent raises BadRequest and
\* issues no Fetch Layer call.
C6_MissingArguments ==
    (IsTrackLookup /\ \A i \in 1..Len(ret.args) : ret.args[i] = None) =>
        (ret.err = "BadRequest" /\ ret.calls = <<>>)

\* Album.get() was called with neither title nor track.
C6_Witness ==
    /\ ret.op = "Album.get" /\ ret.args = <<None, None>>
    /\ ret.err = "BadRequest"

IsArtistTrack == ret.op \in {"Artist.track", "Artist.get"}

\* C7 as claimed: with no title and a track number, Artist.track does a
\* positional lookup, filtered by album title only when an album is given,
\* and does not raise.
C7_Original ==
    (IsArtistTrack /\ ret.args[1] = None /\ ret.args[3] # None) =>
        /\ ret.err = NoErr
        /\ Len(ret.calls) = 1
        /\ ret.calls[1].kw["index"] = ret.args[3]
        /\ (ret.args[2] # None) <=> ("parentTitle__iexact" \in DOMAIN ret.calls[1].kw)

\* C7 as amended: with no title, Artist.track does a positional lookup
\* (album title and track number, on <key>/allLeaves) exactly when both
\* album and track are given, and raises BadRequest without a fetch when
\* either is missing.
C7_AlbumRequired ==
    (IsArtistTrack /\ ret.args[1] = None) =>
        IF ret.args[2] # None /\ ret.args[3] # None
        THEN /\ ret.err = NoErr
             /\ ret.calls = <<Call("fetchItem", obj.key \o SlashAllLeaves, "Track",
                                   ("parentTitle__iexact" :> ret.args[2])
                                   @@ ("index" :> ret.args[3]))>>
        ELSE ret.err = "BadRequest" /\ ret.calls = <<>>

\* Artist.track(track=3) was called without title and album.
C7_Witness ==
    /\ ret.op = "Artist.track" /\ ret.args = <<None, None, I(3)>>
    /\ ret.err = "BadRequest"

SearchFilters == ret.calls[1].kw["filters"][2]

CallerDict == IF ret.args[1] = None THEN EmptyDict ELSE ret.args[1][2]

\* C8 as claimed: the merged filter map keeps the caller's value for a key
\* the implicit ancestry filter also sets.
C8_Original ==
    ret.op = "Artist.albums" =>
        /\ DOMAIN SearchFilters = DOMAIN CallerDict \cup {"artist.id"}
        /\ \A k \in DOMAIN CallerDict : SearchFilters[k] = CallerDict[k]

\* C8 as amended: the merged filter map keeps every caller key the implicit
\* filter does not set, and artist.id is this artist's ratingKey whatever
\* the caller supplied for it.
C8_AncestryFilterWins ==
    ret.op = "Artist.albums" =>
        /\ Len(ret.calls) = 1
        /\ ret.calls[1].kw["libtype"] = S(StrAlbum)
        /\ DOMAIN SearchFilters = DOMAIN CallerDict \cup {"artist.id"}
        /\ \A k \in DOMAIN CallerDict \ {"artist.id"} : SearchFilters[k] = CallerDict[k]
        /\ SearchFilters["artist.id"] = obj.ratingKey

\* Artist.albums was called with filters that set year and artist.id.
C8_Witness ==
    /\ ret.op = "Artist.albums"
    /\ DOMAIN CallerDict = {"year", "artist.id"}
    /\ CallerDict["artist.id"] # obj.ratingKey

QueryOf(key) == SubSeq(key, Len(obj.key) + Len(SlashNearest) + 1, Len(key))

\* C9: sonicallySimilar fetches <key>/nearest followed by a query string
\* that holds limit exactly when it was supplied and maxDistance exactly
\* when it was supplied, limit first, as the class of the caller.
C9_SonicallySimilarQuery ==
    ret.op = "sonicallySimilar" =>
        LET key == ret.calls[1].key
            query == QueryOf(key)
            limit == ret.args[1]
            maxDistance == ret.args[2]
        IN
        /\ Len(ret.calls) = 1
        /\ ret.calls[1].fn = "fetchItems"
        /\ ret.calls[1].cls = obj.cls
        /\ StartsWith(key, obj.key \o SlashNearest)
        /\ Contains(query, StrLimit \o <<"=">>) <=> (limit # None)
        /\ Contains(query, StrMaxDistance \o <<"=">>) <=> (maxDistance # None)
        /\ (limit # None /\ maxDistance # None) =>
             query = <<"?">> \o StrLimit \o <<"=">> \o PyStr(limit)
                     \o <<"&">> \o StrMaxDistance \o <<"=">> \o PyStr(maxDistance)
        /\ (limit # None /\ maxDistance = None) =>
             query = <<"?">> \o StrLimit \o <<"=">> \o PyStr(limit)
        /\ (limit = None /\ maxDistance # None) =>
             query = <<"?">> \o StrMaxDistance \o <<"=">> \o PyStr(maxDistance)
        /\ (limit = I(50) /\ maxDistance = F(25)) =>
             query = <<"?", "l", "i", "m", "i", "t", "=", "5", "0", "&", "m", "a", "x",
                       "D", "i", "s", "t", "a", "n", "c", "e", "=", "0", ".", "2", "5">>

\* A Track asked for its neighbours with limit=0 and maxDistance=0.25.
C9_Witness ==
    /\ ret.op = "sonicallySimilar" /\ obj.cls = "Track"
    /\ ret.args = <<I(0), F(25)>>
    /\ Len(ret.calls) = 1

PopularResult == ret.value

\* C10: popularTracks returns at most 100 tracks of this artist, none of an
\* album whose subformat is Compilation or Live, no two of one title, each
\* with a listener count above 0, by listener count descending.
C10_PopularTracks ==
    ret.op = "popularTracks" =>
        /\ Len(PopularResult) <= 100
        /\ \A i \in 1..Len(PopularResult) :
             LET t == PopularResult[i] IN
             /\ \E k \in 1..Len(lib) : lib[k] = t
             /\ t.artist = obj.ratingKey
             /\ t.subformat \notin {S(StrCompilation), S(StrLive)}
             /\ t.ratingCount # None
             /\ t.ratingCount[2] > 0
             /\ \A j \in 1..Len(PopularResult) : i # j => PopularResult[j].title # t.title
             /\ i > 1 => PopularResult[i - 1].ratingCount[2] >= t.ratingCount[2]

\* A section of more than 100 eligible tracks was cut to the 100 most heard.
C10_Witness ==
    /\ ret.op = "popularTracks"
    /\ Len(lib) > 100
    /\ Len(PopularResult) = 100
    /\ PopularResult[1].ratingCount = I(5)
    /\ PopularResult[100].ratingCount = I(1)

\* C11: metadataDirectory depends on nothing but the guid it hashes (the
\* entity's own guid for Artist and Album, parentGuid for Track): whenever
\* the property is read, Partial or Full, before or after a reconciliation,
\* the path is Metadata/<Kind>/<first hash char>/<remaining hash chars>.bundle
\* of that guid.
C11_MetadataDirectoryOfGuid ==
    (ret.op = "metadataDirectory" /\ ret.err = NoErr) =>
        LET guid == IF obj.cls \in TrackClasses THEN obj.parentGuid ELSE obj.guid
            kind == IF obj.cls = "Artist" THEN StrArtists ELSE StrAlbums
            h == sha1hash(guid[2])
        IN /\ Len(h) = 40
           /\ ret.value = S(StrMetadata \o <<"/">> \o kind \o <<"/">> \o SubSeq(h, 1, 1)
                             \o <<"/">> \o SubSeq(h, 2, Len(h)) \o StrBundle)

\* A reconciled Track, of a guid other than its album's, was asked for its
\* bundle.
C11_Witness ==
    /\ ret.op = "metadataDirectory"
    /\ ret.calls = <<>>
    /\ obj.cls = "Track"
    /\ full
    /\ reloads = 1
    /\ obj.guid # obj.parentGuid

\* The raw value of attribute a in the backing fragment.
Missing(a) == a \notin DOMAIN data.attrib

IsMalformed(a) == ~Missing(a) /\ data.attrib[a] = Malformed(obj.cls)[a]

\* C12 as stated: every numeric or timestamp attribute whose raw value is
\* missing or malformed is loaded as the absent value.
C12_Original ==
    \A a \in DOMAIN WellFormed(obj.cls) :
        (Missing(a) \/ IsMalformed(a)) => obj[a] = None

\* What the loaders give an attribute that the fragment does not carry.
LoadDefault(a) ==
    CASE a \in {"viewCount", "viewOffset"} -> I(0)
      [] a = "albumSort" -> I(-1)
      [] OTHER -> None

\* C12: loading never fails; a malformed numeric or timestamp attribute is
\* loaded as the absent value, and so is a missing one, except viewCount
\* and viewOffset (loaded as 0) and albumSort (loaded as -1).
C12_AbsentOrDefault ==
    \A a \in DOMAIN WellFormed(obj.cls) :
        /\ Missing(a) => obj[a] = LoadDefault(a)
        /\ IsMalformed(a) => obj[a] = None

\* An Artist reconciled from a resource whose numbers are malformed.
C12_Witness ==
    /\ obj.cls = "Artist"
    /\ reloads = 1
    /\ IsMalformed("albumSort")
    /\ IsMalformed("addedAt")
    /\ obj.albumSort = None
    /\ obj.addedAt = None

\* C13: after every load and re-load, of every class, titleSort is the
\* fragment's titleSort when it carries one and the title otherwise, so it is
\* never absent when the title is present.
C13_TitleSortDefault ==
    /\ obj.title = (IF Missing("title") THEN None ELSE S(data.attrib["title"]))
    /\ obj.titleSort = (IF Missing("titleSort") THEN obj.title
                         ELSE S(data.attrib["titleSort"]))
    /\ obj.title # None => obj.titleSort # None

\* A TrackHistory re-loaded from a resource with a title and no titleSort.
C13_Witness ==
    /\ obj.cls = "TrackHistory"
    /\ reloads = 1
    /\ Missing("titleSort")
    /\ obj.title = S(StrLucky)
    /\ obj.titleSort = S(StrLucky)

\* C14: the five registered classes occupy pairwise distinct entries of the
\* registry, each entry gives its own class, and resolve returns the class
\* registered under the signaled kind rather than the unflagged class of the
\* same tag and type.
C14_RegistryEntries ==
    /\ \A i, j \in 1..Len(RegisteredClasses) :
          i # j => EntryOf(RegisteredClasses[i]) # EntryOf(RegisteredClasses[j])
    /\ PLEXOBJECTS[<<StrDirectory, StrArtist, "">>] = "Artist"
    /\ PLEXOBJECTS[<<StrDirectory, StrAlbum, "">>] = "Album"
    /\ PLEXOBJECTS[<<StrTrackTag, StrTrack, "">>] = "Track"
    /\ PLEXOBJECTS[<<StrTrackTag, StrTrack, "session">>] = "TrackSession"
    /\ PLEXOBJECTS[<<StrTrackTag, StrTrack, "history">>] = "TrackHistory"
    /\ ret.op = "resolve" =>
          \A cls \in LoadClasses :
              (ret.args = <<S(TAG(cls)), S(TYPE(cls)), KindFlags(cls)>>)
                  => ret.value = S(cls)

\* A fragment of the sessions listing was resolved to TrackSession.
C14_Witness ==
    /\ ret.op = "resolve"
    /\ ret.args = <<S(StrTrackTag), S(StrTrack), "session">>
    /\ ret.value = S("TrackSession")

\* The loader layers of each class, in the order the claim gives.
ExpectedLayers(cls) ==
    CASE cls = "Artist" -> <<"Audio", "Artist">>
      [] cls = "Album" -> <<"Audio", "Album">>
      [] cls = "Track" -> <<"Audio", "Playable", "Track">>
      [] cls = "TrackSession" -> <<"Audio", "Playable", "Track", "PlexSession">>
      [] cls = "TrackHistory" -> <<"Audio", "Playable", "Track", "PlexHistory">>

\* C15: after every load and re-load the layers have run in the fixed order,
\* the most specific last, and an attribute assigned by two layers (key, by
\* the Audio layer and then by Artist or Album) holds the value of the later
\* one.
C15_LayerOrder ==
    /\ obj.layers = ExpectedLayers(obj.cls)
    /\ obj.cls \in {"Artist", "Album"} =>
          obj.key = Replace(data.attrib["key"], SlashChildren, <<>>)
    /\ obj.cls = "TrackSession" =>
          obj.sessionKey = CastInt(AttribGet(data, "sessionKey", None))
    /\ obj.cls = "TrackHistory" =>
          obj.viewedAt = toDatetime(AttribGet(data, "viewedAt", None))

\* A TrackSession re-loaded on reconciliation, its session id read last.
C15_Witness ==
    /\ obj.cls = "TrackSession"
    /\ reloads = 1
    /\ obj.layers = <<"Audio", "Playable", "Track", "PlexSession">>
    /\ obj.sessionKey = I(4)

IsListing == ret.op \in {"Artist.track", "Artist.tracks", "Album.track", "Album.tracks"}

\* The calls of the last operation that fetch a listing (not the
\* instance's own resource).
ListingCalls == SelectSeq(ret.calls, LAMBDA c : c.fn # "reload")

\* C16: every listing fetch of Album.tracks and Album.track goes to
\* K/children and every one of Artist.tracks and Artist.track to K/allLeaves,
\* K being /library/metadata/<ratingKey>, whether the fragment's key was K or
\* K/children and whether or not the instance was reconciled, before or
\* during the operation.
C16_ListingKeys ==
    (IsListing /\ ListingCalls # <<>>) =>
        LET K == WireKey(obj.ratingKey[2], <<>>)
            path == ListingCalls[1].key
        IN /\ Len(ListingCalls) = 1
           /\ obj.cls = "Album" => path = K \o SlashChildren
           /\ obj.cls = "Artist" => path = K \o SlashAllLeaves
           /\ ~Contains(path, SlashChildren \o SlashChildren)

\* An Album without a title was reconciled by a positional Album.track, from
\* a resource whose key ends in /children, and then fetched K/children.
C16_Witness ==
    /\ ret.op = "Album.track"
    /\ full
    /\ reloads = 1
    /\ EndsWith(data.attrib["key"], SlashChildren)
    /\ Len(ret.calls) = 2
    /\ ret.calls[2].key = WireKey(1, SlashChildren)

\* C17: a track lookup given a title that is not an integer issues exactly
\* one fetch, filtered by title__iexact alone, whatever album and index are;
\* a fetch filtered by index is issued only when no title is given, or, by
\* Album.track, when the title is an integer, which is then the index.
C17_TitlePrecedence ==
    IsTrackLookup =>
        LET title == ret.args[1]
            track == ret.args[Len(ret.args)]
            key == obj.key \o (IF IsArtistTrack THEN SlashAllLeaves ELSE SlashChildren)
            positional == ret.calls # <<>> /\ "index" \in DOMAIN ret.calls[1].kw
        IN /\ (title # None /\ ~IsInt(title)) =>
                 /\ ret.err = NoErr
                 /\ ret.calls = <<Call("fetchItem", key, "Track", "title__iexact" :> title)>>
           /\ (positional /\ IsArtistTrack) =>
                 /\ title = None
                 /\ ret.calls[1].kw =
                        ("parentTitle__iexact" :> ret.args[2]) @@ ("index" :> track)
           /\ (positional /\ ~IsArtistTrack) =>
                 /\ title = None \/ IsInt(title)
                 /\ ret.calls[1].kw =
                        ("parentTitle__iexact" :> obj.title)
                        @@ ("index" :> (IF IsInt(title) THEN title ELSE track))

\* Artist.get was given a title together with an album and an index.
C17_Witness ==
    /\ ret.op = "Artist.get"
    /\ ret.args = <<S(StrLucky), S(StrWeSing), I(3)>>
    /\ ret.calls[1].kw = ("title__iexact" :> S(StrLucky))

====
